---- MODULE Spec2Model ----
(***************************************************************************)
(* Barnes-Hut quadtree and simulation step of graviton.                    *)
(*                                                                         *)
(* Spec      the program of lib.rs: the simulation thread and the render   *)
(*           thread sharing one Mutex<Simulation>.                         *)
(* TreeSpec  a caller driving the Quadtree API (clear, insert, traverse).  *)
(*                                                                         *)
(* SimFloat values are modelled as exact binary fixed-point numbers with   *)
(* NLimbs * LimbBits fractional bits, enough for every value the descent   *)
(* computes down to depth MAX_DEPTH + 1; f32 rounding is not modelled.     *)
(***************************************************************************)
EXTENDS Integers, Sequences, FiniteSets, TLC

(***************************************************************************)
(* SimFloat: <<i, f1, .., fN>> stands for i + f1/Base + .. + fN/Base^N,    *)
(* with i any integer and every fk in 0..Base-1.                           *)
(***************************************************************************)
LimbBits == 13
NLimbs == 5
Base == 2 ^ LimbBits
FxLen == NLimbs + 1

\* the digits as a tuple
Digits(f) == SubSeq(f, 1, FxLen)

RECURSIVE Carry(_, _, _)
Carry(s, k, c) ==
    IF k = 1
    THEN [s EXCEPT ![1] = s[1] + c]
    ELSE LET v == s[k] + c
         IN  Carry([s EXCEPT ![k] = v % Base], k - 1, v \div Base)

FxInt(n) == Digits([k \in 1..FxLen |-> IF k = 1 THEN n ELSE 0])
\* 2^-e for 1 <= e <= NLimbs * LimbBits
FxPow2Neg(e) ==
    Digits([k \in 1..FxLen |->
              IF k = 1 + ((e + LimbBits - 1) \div LimbBits)
              THEN 2 ^ ((LimbBits - (e % LimbBits)) % LimbBits)
              ELSE 0])
FxAdd(a, b) == Carry(Digits([k \in 1..FxLen |-> a[k] + b[k]]), FxLen, 0)
FxNeg(a) == Carry(Digits([k \in 1..FxLen |-> 0 - a[k]]), FxLen, 0)
FxSub(a, b) == FxAdd(a, FxNeg(b))
FxLess(a, b) ==
    \E k \in 1..FxLen : a[k] < b[k] /\ \A j \in 1..(k - 1) : a[j] = b[j]
FxLeq(a, b) == ~FxLess(b, a)
FxAbs(a) == IF a[1] < 0 THEN FxNeg(a) ELSE a

RECURSIVE SumTerms(_, _, _, _)
\* sum of a[i] * b[k + 1 - i] for i in i..k
SumTerms(a, b, k, i) ==
    IF i > k THEN 0 ELSE a[i] * b[k + 1 - i] + SumTerms(a, b, k, i + 1)
FxMul(a, b) == Carry(Digits([k \in 1..FxLen |-> SumTerms(a, b, k, 1)]), FxLen, 0)

Fx0 == FxInt(0)
Fx1 == FxInt(1)
FxHalf == FxPow2Neg(1)
FxQuarter == FxPow2Neg(2)

\* SimFloat::from(0.5).powi(depth): 0.5^depth
powi05(depth) == IF depth = 0 THEN Fx1 ELSE FxPow2Neg(depth)

Point2(px, py) == [x |-> px, y |-> py]
PointAdd(p, dx, dy) == Point2(FxAdd(p.x, dx), FxAdd(p.y, dy))

(***************************************************************************)
(* simulation/quadtree.rs                                                  *)
(***************************************************************************)
MAX_DEPTH == 64

\* Option<T>
None == <<>>
Some(v) == <<v>>

\* enum Quadrant, with its #[repr(usize)] discriminants
NW == 0
SW == 1
NE == 2
SE == 3

\* from_comparison with the south and north quadrants of the west half mixed up
from_comparison_mixed(element_position, node_position) ==
    IF FxLess(element_position.x, node_position.x)
    THEN IF FxLess(element_position.y, node_position.y) THEN NW ELSE SW
    ELSE IF FxLess(element_position.y, node_position.y) THEN SE ELSE NE

from_comparison(element_position, node_position) ==
    IF FxLess(element_position.x, node_position.x)
    THEN IF FxLess(element_position.y, node_position.y) THEN SW ELSE NW
    ELSE IF FxLess(element_position.y, node_position.y) THEN SE ELSE NE

apply_offset(quadrant, point, extent, depth) ==
    LET half_extent == FxMul(FxMul(FxHalf, extent), powi05(depth))
    IN  CASE quadrant = NW -> Point2(FxSub(point.x, half_extent), FxAdd(point.y, half_extent))
          [] quadrant = SW -> Point2(FxSub(point.x, half_extent), FxSub(point.y, half_extent))
          [] quadrant = NE -> Point2(FxAdd(point.x, half_extent), FxAdd(point.y, half_extent))
          [] quadrant = SE -> Point2(FxAdd(point.x, half_extent), FxSub(point.y, half_extent))

\* impl Default for Pseudobody
PseudobodyDefault == [position |-> Point2(Fx0, Fx0), mass |-> Fx0]

\* QuadtreeNode { child_index: Node(i) | Element(i), parent_index, data }
QuadtreeNode(kind, child_index, parent_index, data) ==
    [kind |-> kind, child_index |-> child_index, parent_index |-> parent_index, data |-> data]

\* Quadtree::new
QuadtreeNew(extent) == [extent |-> extent, nodes |-> <<None>>, elements |-> <<>>]

\* a clear that resets the nodes and keeps the elements
clearNodesOnly(qt) == [qt EXCEPT !.nodes = <<None>>]

\* a clear that resets the elements and keeps the nodes
clearElementsOnly(qt) == [qt EXCEPT !.elements = <<>>]

\* Quadtree::clear
clear(qt) == [qt EXCEPT !.nodes = <<None>>, !.elements = <<>>]

\* a depth guard that lets one more level through
DepthExceededLate(depth) == depth > MAX_DEPTH + 1

\* the depth guard of insert_at_node and traverse_at_node
DepthExceeded(depth) == depth > MAX_DEPTH

(***************************************************************************)
(* insert_at_node and traverse_at_node recurse up to MAX_DEPTH + 1 deep.   *)
(* Their recursion is run here on an explicit call stack: calls holds the  *)
(* calls still to be made, the next one first.  Every call site in the     *)
(* source propagates an Err with `?`, so an Err ends the whole run.        *)
(***************************************************************************)
\* a call that passes the node itself where its parent is expected
InsertCallSelfParent(node_index, parent_index, node_position, depth, element_index) ==
    [node_index |-> node_index, parent_index |-> node_index,
     node_position |-> node_position, depth |-> depth,
     element_index |-> element_index]

\* the arguments of one call of insert_at_node
InsertCall(node_index, parent_index, node_position, depth, element_index) ==
    [node_index |-> node_index, parent_index |-> parent_index,
     node_position |-> node_position, depth |-> depth,
     element_index |-> element_index]

\* Quadtree::insert_at_node: the body of the call at the head of run.calls
insert_at_node(run) ==
    LET qt == run.qt
        call == Head(run.calls)
        node_index == call.node_index
        parent_index == call.parent_index
        node_position == call.node_position
        depth == call.depth
        element_index == call.element_index
        slot == qt.nodes[node_index + 1]
    IN
    IF DepthExceeded(depth)
    THEN [run EXCEPT !.res = "Err", !.errDepth = depth]
    ELSE
      IF slot = None
      THEN \* use empty slot
           LET new_leaf == QuadtreeNode("Element", element_index + 1,
                                        parent_index + 1, PseudobodyDefault)
           IN  [run EXCEPT !.qt.nodes[node_index + 1] = Some(new_leaf),
                           !.qt.elements[element_index + 1].leaf_index =
                               Some(node_index + 1),
                           !.calls = Tail(@)]
      ELSE
        LET node == slot[1]
        IN  IF node.kind = "Node"
            THEN \* find correct quadrant and insert there
                 LET element_pos == qt.elements[element_index + 1].element.position
                     children_index == node.child_index - 1
                     quadrant == from_comparison(element_pos, node_position)
                     child_index == children_index + quadrant
                     child_position ==
                         apply_offset(from_comparison(element_pos, node_position),
                                      node_position, qt.extent, depth)
                 IN  [run EXCEPT !.calls =
                         <<InsertCall(child_index, node_index, child_position,
                                      depth + 1, element_index)>> \o Tail(@)]
            ELSE \* subdivide leaf into twig and reinsert into self
                 LET children_index == Len(qt.nodes) + 1
                     updated_node == [node EXCEPT !.kind = "Node",
                                                  !.child_index = children_index]
                 IN  [run EXCEPT
                        !.qt.nodes = [@ \o <<None, None, None, None>>
                                        EXCEPT ![node_index + 1] = Some(updated_node)],
                        !.calls =
                            <<InsertCall(node_index, parent_index, node_position,
                                         depth, element_index),
                              InsertCall(node_index, parent_index, node_position,
                                         depth, node.child_index - 1)>> \o Tail(@)]

\* the run is over: every call has returned Ok, or one has returned Err
Returned(run) == run.res # "Ok" \/ run.calls = <<>>

\* the next n calls of a run that is not over, or as many as it still has
RECURSIVE InsertCalls(_, _)
InsertCalls(run, n) ==
    IF n <= 1
    THEN insert_at_node(run)
    ELSE LET first == InsertCalls(run, n \div 2)
         IN  IF Returned(first) THEN first
             ELSE InsertCalls(first, n - (n \div 2))

RECURSIVE InsertRun(_)
InsertRun(run) ==
    IF Returned(run) THEN run ELSE InsertRun(InsertCalls(run, MAX_DEPTH))

\* an insert that puts an element into an empty tree only and otherwise
\* returns Ok without touching the tree
insertIntoEmptyOnly(qt, element) ==
    IF qt.elements # <<>>
    THEN [qt |-> qt, res |-> "Ok", errDepth |-> 0]
    ELSE LET qt1 == [qt EXCEPT !.elements =
                        Append(@, [element |-> element, leaf_index |-> None])]
             run == InsertRun([qt |-> qt1, res |-> "Ok", errDepth |-> 0,
                               calls |-> <<InsertCall(0, 0, Point2(Fx0, Fx0), 0, 0)>>])
         IN  [qt |-> run.qt, res |-> run.res, errDepth |-> run.errDepth]

\* Quadtree::insert. res is Ok, Err (the error string of the depth guard, met
\* at depth errDepth) or panic (the panic! of the extent check).
insert(qt, element) ==
    IF \/ FxLess(qt.extent, FxAbs(element.position.x))
       \/ FxLess(qt.extent, FxAbs(element.position.y))
    THEN [qt |-> qt, res |-> "panic", errDepth |-> 0]
    ELSE LET element_index == Len(qt.elements)
             qt1 == [qt EXCEPT !.elements =
                        Append(@, [element |-> element, leaf_index |-> None])]
             run == InsertRun([qt |-> qt1, res |-> "Ok", errDepth |-> 0,
                               calls |-> <<InsertCall(0, 0, Point2(Fx0, Fx0), 0,
                                                      element_index)>>])
         IN  [qt |-> run.qt, res |-> run.res, errDepth |-> run.errDepth]

\* The visitor of traverse, a FnMut closure: it signals Stop on the nodes in
\* stop and Continue on the others, and logs its calls in visits, in order:
\* the node, centre and depth it was handed and (for the properties only)
\* the arena slot the node was read from.
func(stop, visits, node_index, node, node_position, depth) ==
    [visits |-> Append(visits, [index |-> node_index, node |-> node,
                                position |-> node_position, depth |-> depth]),
     signal |-> IF node \in stop THEN "Stop" ELSE "Continue"]

TraverseCall(node_index, node_position, depth) ==
    [node_index |-> node_index, node_position |-> node_position, depth |-> depth]

\* Quadtree::traverse_at_node: the body of the call at the head of run.calls
traverse_at_node(qt, stop, run) ==
    LET call == Head(run.calls)
        node_index == call.node_index
        node_position == call.node_position
        depth == call.depth
        slot == qt.nodes[node_index + 1]
    IN
    IF DepthExceeded(depth)
    THEN [run EXCEPT !.res = "Err"]
    ELSE
      IF slot = None
      THEN [run EXCEPT !.calls = Tail(@)]
      ELSE
        LET node == slot[1]
            called == func(stop, run.visits, node_index, node, node_position, depth)
        IN  IF called.signal = "Stop"
            THEN [run EXCEPT !.visits = called.visits, !.calls = Tail(@)]
            ELSE IF node.kind = "Node"
            THEN
              LET children_index == node.child_index - 1
                  half_extent == FxMul(FxMul(FxHalf, qt.extent), powi05(depth))
                  minus == FxNeg(half_extent)
                  child_positions ==
                      << PointAdd(node_position, minus, half_extent),
                         PointAdd(node_position, minus, minus),
                         PointAdd(node_position, half_extent, half_extent),
                         PointAdd(node_position, half_extent, minus) >>
              IN  \* for child_index in 0..4
                  [run EXCEPT
                     !.visits = called.visits,
                     !.calls =
                         [child_index \in 1..4 |->
                             TraverseCall(children_index + (child_index - 1),
                                          child_positions[child_index], depth + 1)]
                         \o Tail(@)]
            ELSE [run EXCEPT !.visits = called.visits, !.calls = Tail(@)]

RECURSIVE TraverseCalls(_, _, _, _)
TraverseCalls(qt, stop, run, n) ==
    IF n <= 1
    THEN traverse_at_node(qt, stop, run)
    ELSE LET first == TraverseCalls(qt, stop, run, n \div 2)
         IN  IF Returned(first) THEN first
             ELSE TraverseCalls(qt, stop, first, n - (n \div 2))

RECURSIVE TraverseRun(_, _, _)
TraverseRun(qt, stop, run) ==
    IF Returned(run) THEN run
    ELSE TraverseRun(qt, stop, TraverseCalls(qt, stop, run, MAX_DEPTH))

\* Quadtree::traverse: its Result and the visitor's log
traverse(qt, stop) ==
    LET run == TraverseRun(qt, stop,
                   [visits |-> <<>>, res |-> "Ok",
                    calls |-> <<TraverseCall(0, Point2(Fx0, Fx0), 0)>>])
    IN  [visits |-> run.visits, res |-> run.res]

(***************************************************************************)
(* simulation.rs                                                           *)
(***************************************************************************)
\* struct Body (radius and color are render-only and left out)
Body(position, velocity, mass) ==
    [position |-> position, velocity |-> velocity, mass |-> mass]

\* Pseudobody::new
Pseudobody(position, mass) == [position |-> position, mass |-> mass]

\* the factor applied to both child sums of a twig
ChildSumFactor == FxQuarter

\* one round of the `for child_index in 0..4` loop of a twig: the running
\* sums after the child at slot has been aggregated and read
AddChild(nodes, slot, sums) ==
    IF nodes[slot + 1] = None
    THEN sums
    ELSE LET child_data == nodes[slot + 1][1].data
         IN  [mass |-> FxAdd(sums.mass, child_data.mass),
              position |-> PointAdd(sums.position, child_data.position.x,
                                    child_data.position.y)]

\* Simulation::calculate_pseudobody_from_node, on the node arena
RECURSIVE calculate_pseudobody_from_node(_, _, _)
calculate_pseudobody_from_node(nodes, elements, node_index) ==
    IF nodes[node_index + 1] = None
    THEN nodes
    ELSE
      LET node == nodes[node_index + 1][1]
      IN  IF node.kind = "Node"
          THEN
            LET children_index == node.child_index - 1
                s == [mass |-> Fx0, position |-> Point2(Fx0, Fx0)]
                n0 == calculate_pseudobody_from_node(nodes, elements, children_index + 0)
                s0 == AddChild(n0, children_index + 0, s)
                n1 == calculate_pseudobody_from_node(n0, elements, children_index + 1)
                s1 == AddChild(n1, children_index + 1, s0)
                n2 == calculate_pseudobody_from_node(n1, elements, children_index + 2)
                s2 == AddChild(n2, children_index + 2, s1)
                n3 == calculate_pseudobody_from_node(n2, elements, children_index + 3)
                s3 == AddChild(n3, children_index + 3, s2)
                child_mass_sum == FxMul(s3.mass, ChildSumFactor)
                child_position_sum == Point2(FxMul(s3.position.x, ChildSumFactor),
                                             FxMul(s3.position.y, ChildSumFactor))
            IN  [n3 EXCEPT ![node_index + 1][1].data =
                               Pseudobody(child_position_sum, child_mass_sum)]
          ELSE
            LET element_index == node.child_index - 1
                element_position == elements[element_index + 1].element.position
                element_mass == elements[element_index + 1].element.mass
            IN  [nodes EXCEPT ![node_index + 1][1].data =
                                  Pseudobody(element_position, element_mass)]

\* an advance that drains self.bodies as it inserts them
AdvanceBodiesDrained(bs) == <<>>

\* Simulation::advance: self.bodies after the call; advance reads the bodies
\* through self.bodies.iter() and never writes them
AdvanceBodies(bs) == bs

\* Simulation::advance, step 1: the tree after clear()
AdvanceClear(qt) == clear(qt)

\* an advance that does not run the aggregator
AdvanceAggregateSkipped(qt) == qt

\* Simulation::advance, step 2: the tree after the aggregator has run
AdvanceAggregate(qt) ==
    [qt EXCEPT !.nodes = calculate_pseudobody_from_node(qt.nodes, qt.elements, 0)]

(***************************************************************************)
(* lib.rs: std::sync::Mutex<Simulation>                                    *)
(***************************************************************************)
MutexNew == [holder |-> "none", poisoned |-> FALSE]
\* a lock() that does not wait for the guard
MutexFreeAlways(m) == TRUE

\* lock() blocks while another thread holds the guard
MutexFree(m) == m.holder = "none"
\* lock() returns Err(PoisonError) once a holder has panicked
LockIsErr(m) == m.poisoned
MutexAcquire(m, thread) == [m EXCEPT !.holder = thread]
\* a guard that is not dropped
MutexKept(m) == m

\* the guard is dropped at the end of the statement or handler
MutexRelease(m) == [m EXCEPT !.holder = "none"]
\* the guard is dropped while its thread unwinds from a panic
MutexPoison(m) == [m EXCEPT !.holder = "none", !.poisoned = TRUE]

(***************************************************************************)
(* Bounds and inputs                                                       *)
(***************************************************************************)
MaxBodies == 2
MaxInserts == 3
MaxStopIndex == 4

Vector2(vx, vy) == [x |-> vx, y |-> vy]

\* the bodies Simulation::new may be given: inside the extent, on its edge
\* and outside it; picking one twice gives two bodies at one position
BodyPool ==
    { Body(Point2(Fx1, Fx1), Vector2(Fx0, Fx0), Fx1),
      Body(Point2(FxInt(-1), Fx1), Vector2(Fx1, Fx0), FxInt(2)),
      Body(Point2(Fx1, FxHalf), Vector2(Fx0, FxNeg(FxHalf)), Fx1),
      Body(Point2(FxInt(-2), FxInt(-2)), Vector2(FxHalf, FxHalf), FxInt(2)),
      Body(Point2(FxInt(3), Fx0), Vector2(Fx0, Fx0), Fx1) }

\* the elements a caller of Quadtree::insert may pass: as above, and points
\* that only the last levels of the subdivision can tell apart
ElementPool ==
    { Body(Point2(Fx0, Fx0), Vector2(Fx0, Fx0), Fx1),
      Body(Point2(FxPow2Neg(MAX_DEPTH - 2), Fx0), Vector2(Fx0, Fx0), Fx1),
      Body(Point2(FxPow2Neg(MAX_DEPTH - 1), Fx0), Vector2(Fx0, Fx0), Fx1),
      Body(Point2(FxInt(2), FxInt(-2)), Vector2(Fx0, Fx0), Fx1),
      Body(Point2(FxInt(3), Fx0), Vector2(Fx0, Fx0), Fx1) }

DtSet == {Fx1, FxHalf}

\* Simulation::new builds its tree with Quadtree::new(2.0)
SimulationExtent == FxInt(2)

VARIABLES
    bodies,              \* Simulation.bodies
    quadtree,            \* Simulation.quadtree; in TreeSpec, the caller's Quadtree
    mutex,               \* the Mutex around the Simulation
    simPc,               \* position of the simulation thread
    mainPc,              \* position of the main (event loop, render) thread
    surface_configured,  \* the flag of the event loop
    dt,                  \* argument of the advance call in progress
    nextBody,            \* advance: number of bodies the rebuild loop has passed
    advRes,              \* advance: "none", "running", or how the last call ended
    entry,               \* Simulation.bodies when advance was entered
    inserts,             \* the insert calls since the last clear: element, result
    frame,               \* what the last render read
    lastCall,            \* TreeSpec: the caller's last call and what it returned
    cleared              \* history: clear() has emptied a tree that held elements

vars == << bodies, quadtree, mutex, simPc, mainPc, surface_configured, dt,
           nextBody, advRes, entry, inserts, frame, lastCall, cleared >>

InsertRecord(element, r) ==
    [element |-> element, res |-> r.res, errDepth |-> r.errDepth]

NoCall == [op |-> "none", res |-> "Ok", stop |-> {}, visits |-> <<>>]

\* sequences of at most n bodies of the pool
BodySeqs(n) == UNION { [1..k -> BodyPool] : k \in 0..n }

(***************************************************************************)
(* Spec: the program of lib.rs                                             *)
(***************************************************************************)
Init ==
    /\ bodies \in BodySeqs(MaxBodies)
    /\ quadtree = QuadtreeNew(SimulationExtent)
    /\ mutex = MutexNew
    /\ simPc = "lock"
    /\ mainPc = "events"
    /\ surface_configured = FALSE
    /\ dt = Fx0
    /\ nextBody = 0
    /\ advRes = "none"
    /\ entry = <<>>
    /\ inserts = <<>>
    /\ frame = [bodies |-> <<>>, tree |-> None]
    /\ lastCall = NoCall
    /\ cleared = FALSE

ProcessRuns == mainPc \in {"events", "lock", "render"}

\* simulation thread: dt = current_time - previous_time; simulation.lock().unwrap()
SimLock ==
    /\ ProcessRuns /\ simPc = "lock"
    /\ MutexFree(mutex)
    /\ IF LockIsErr(mutex)
       THEN /\ simPc' = "panicked"
            /\ UNCHANGED << mutex, dt, entry, advRes >>
       ELSE /\ mutex' = MutexAcquire(mutex, "sim")
            /\ \E d \in DtSet : dt' = d
            /\ entry' = bodies
            /\ advRes' = "running"
            /\ simPc' = "clear"
    /\ UNCHANGED << bodies, quadtree, mainPc, surface_configured, nextBody,
                    inserts, frame, lastCall, cleared >>

\* advance: self.quadtree.clear()
SimClear ==
    /\ ProcessRuns /\ simPc = "clear"
    /\ quadtree' = AdvanceClear(quadtree)
    /\ cleared' = (cleared \/ quadtree.elements # <<>>)
    /\ inserts' = <<>>
    /\ nextBody' = 0
    /\ simPc' = IF Len(bodies) = 0 THEN "aggregate" ELSE "insert"
    /\ UNCHANGED << bodies, mutex, mainPc, surface_configured, dt, advRes,
                    entry, frame, lastCall >>

\* advance: self.quadtree.insert(body.clone())? for the next body
SimInsert ==
    /\ ProcessRuns /\ simPc = "insert"
    /\ LET body == bodies[nextBody + 1]
           r == insert(quadtree, body)
       IN  /\ quadtree' = r.qt
           /\ inserts' = Append(inserts, InsertRecord(body, r))
           /\ CASE r.res = "Ok" ->
                     /\ nextBody' = nextBody + 1
                     /\ simPc' = IF nextBody + 1 = Len(bodies)
                                 THEN "aggregate" ELSE "insert"
                     /\ UNCHANGED << advRes, mutex >>
                [] r.res = "Err" ->
                     /\ advRes' = "Err"
                     /\ simPc' = "unwrap"
                     /\ UNCHANGED << nextBody, mutex >>
                [] r.res = "panic" ->
                     \* the thread unwinds out of advance and of the closure
                     /\ advRes' = "panic"
                     /\ simPc' = "panicked"
                     /\ mutex' = MutexPoison(mutex)
                     /\ UNCHANGED nextBody
    /\ UNCHANGED << bodies, mainPc, surface_configured, dt, entry, frame, lastCall, cleared >>

\* advance: calculate_pseudobody_from_node(0), the empty force loop, Ok(())
SimAggregate ==
    /\ ProcessRuns /\ simPc = "aggregate"
    /\ quadtree' = AdvanceAggregate(quadtree)
    /\ bodies' = AdvanceBodies(bodies)
    /\ advRes' = "Ok"
    /\ simPc' = "unwrap"
    /\ UNCHANGED << mutex, mainPc, surface_configured, dt, nextBody,
                    entry, inserts, frame, lastCall, cleared >>

\* .unwrap() of advance's Result; the guard is dropped as the statement ends
SimUnwrap ==
    /\ ProcessRuns /\ simPc = "unwrap"
    /\ IF advRes = "Ok"
       THEN /\ mutex' = MutexRelease(mutex)
            /\ simPc' = "sleep"
       ELSE /\ mutex' = MutexPoison(mutex)
            /\ simPc' = "panicked"
    /\ UNCHANGED << bodies, quadtree, mainPc, surface_configured, dt, nextBody,
                    advRes, entry, inserts, frame, lastCall, cleared >>

\* std::thread::sleep(Duration::from_millis(10)), then the loop again
SimSleep ==
    /\ ProcessRuns /\ simPc = "sleep"
    /\ simPc' = "lock"
    /\ UNCHANGED << bodies, quadtree, mutex, mainPc, surface_configured, dt,
                    nextBody, advRes, entry, inserts, frame, lastCall, cleared >>

\* WindowEvent::Resized
MainResized ==
    /\ mainPc = "events"
    /\ surface_configured' = TRUE
    /\ UNCHANGED << bodies, quadtree, mutex, simPc, mainPc, dt, nextBody,
                    advRes, entry, inserts, frame, lastCall, cleared >>

\* WindowEvent::RedrawRequested up to the call of simulation.lock()
MainRedraw ==
    /\ mainPc = "events"
    /\ surface_configured
    /\ mainPc' = "lock"
    /\ UNCHANGED << bodies, quadtree, mutex, simPc, surface_configured, dt,
                    nextBody, advRes, entry, inserts, frame, lastCall, cleared >>

\* simulation.lock().unwrap() of the main thread
MainLock ==
    /\ mainPc = "lock"
    /\ MutexFree(mutex)
    /\ IF LockIsErr(mutex)
       THEN mainPc' = "panicked" /\ UNCHANGED mutex
       ELSE mainPc' = "render" /\ mutex' = MutexAcquire(mutex, "main")
    /\ UNCHANGED << bodies, quadtree, simPc, surface_configured, dt, nextBody,
                    advRes, entry, inserts, frame, lastCall, cleared >>

\* render_state.render(&mut pipeline, &simulation): the bodies and, when the
\* tree is drawn, generate_quadtree_mesh; the guard is dropped as the arm ends
MainRender ==
    /\ mainPc = "render"
    /\ \E draw_tree \in BOOLEAN :
         LET mesh == traverse(quadtree, {})
         IN  IF draw_tree /\ mesh.res # "Ok"
             THEN /\ mainPc' = "panicked"
                  /\ mutex' = MutexPoison(mutex)
                  /\ UNCHANGED frame
             ELSE /\ frame' = [bodies |-> bodies,
                               tree |-> IF draw_tree THEN Some(mesh.visits) ELSE None]
                  /\ mainPc' = "events"
                  /\ mutex' = MutexRelease(mutex)
    /\ UNCHANGED << bodies, quadtree, simPc, surface_configured, dt, nextBody,
                    advRes, entry, inserts, lastCall, cleared >>

\* WindowEvent::CloseRequested or Escape: control_flow.exit()
MainClose ==
    /\ mainPc = "events"
    /\ mainPc' = "exited"
    /\ UNCHANGED << bodies, quadtree, mutex, simPc, surface_configured, dt,
                    nextBody, advRes, entry, inserts, frame, lastCall, cleared >>

Next ==
    \/ SimLock \/ SimClear \/ SimInsert \/ SimAggregate \/ SimUnwrap \/ SimSleep
    \/ MainResized \/ MainRedraw \/ MainLock \/ MainRender \/ MainClose

Spec == Init /\ [][Next]_vars

\* The scheduling of the two threads.  The simulation thread, once it holds
\* the guard, runs on to the end of the statement that drops it.  A lock()
\* of the main thread that finds the mutex taken blocks and is woken when
\* the guard is dropped; the simulation thread then sleeps 10 ms before it
\* calls lock() again, so a blocked lock() that can return again and again
\* does return.
\*
\* SimStatement is a step of the simulation thread inside the statement of
\* lib.rs line 118: the thread holds the guard and its position moves.  Under
\* Spec such a step is a step of SimClear, SimInsert, SimAggregate or
\* SimUnwrap, and one of the four is enabled whenever the thread is at one
\* of these positions in a running process, so weak fairness of SimStatement
\* is weak fairness of their disjunction.
SimStatement ==
    /\ ProcessRuns /\ simPc \in {"clear", "insert", "aggregate", "unwrap"}
    /\ simPc' \in {"insert", "aggregate", "unwrap", "sleep", "panicked"}
    /\ nextBody' \in 0..MaxBodies

FairSpec ==
    /\ Spec
    /\ WF_<< simPc, nextBody >>(SimStatement)
    /\ SF_vars(MainLock)

(***************************************************************************)
(* TreeSpec: a caller of the Quadtree API                                  *)
(***************************************************************************)
TreeInit ==
    /\ bodies = <<>>
    /\ quadtree = QuadtreeNew(SimulationExtent)
    /\ mutex = MutexNew
    /\ simPc = "none"
    /\ mainPc = "none"
    /\ surface_configured = FALSE
    /\ dt = Fx0
    /\ nextBody = 0
    /\ advRes = "none"
    /\ entry = <<>>
    /\ inserts = <<>>
    /\ frame = [bodies |-> <<>>, tree |-> None]
    /\ lastCall = [NoCall EXCEPT !.op = "new"]
    /\ cleared = FALSE

\* A panic unwinds into the caller: no call follows it.
CallerRuns == lastCall.res # "panic"
\* The caller builds a tree with clear and insert calls, traverses it, and
\* starts again with clear.
Building == CallerRuns /\ lastCall.op # "traverse"

TreeUnchanged ==
    UNCHANGED << bodies, mutex, simPc, mainPc, surface_configured, dt, nextBody,
                 advRes, entry, frame >>

\* quadtree.clear()
TreeClear ==
    /\ CallerRuns
    /\ quadtree' = clear(quadtree)
    /\ cleared' = (cleared \/ quadtree.elements # <<>>)
    /\ inserts' = <<>>
    /\ lastCall' = [NoCall EXCEPT !.op = "clear"]
    /\ TreeUnchanged

\* quadtree.insert(element)
TreeInsert ==
    /\ Building
    /\ Len(inserts) < MaxInserts
    /\ \E element \in ElementPool :
         LET r == insert(quadtree, element)
         IN  /\ quadtree' = r.qt
             /\ inserts' = Append(inserts, InsertRecord(element, r))
             /\ lastCall' = [NoCall EXCEPT !.op = "insert", !.res = r.res]
    /\ UNCHANGED cleared
    /\ TreeUnchanged

\* the visitors the caller passes: Continue everywhere, or Stop on one node
Visitors(qt) ==
    {{}} \cup { {qt.nodes[i + 1][1]} :
                  i \in { j \in 0..MaxStopIndex :
                            j < Len(qt.nodes) /\ qt.nodes[j + 1] # None } }

\* quadtree.traverse(&mut visitor)
TreeTraverse ==
    /\ Building
    /\ \E stop \in Visitors(quadtree) :
         LET r == traverse(quadtree, stop)
         IN  lastCall' = [op |-> "traverse", res |-> r.res, stop |-> stop,
                          visits |-> r.visits]
    /\ UNCHANGED << quadtree, inserts, cleared >>
    /\ TreeUnchanged

TreeNext == TreeClear \/ TreeInsert \/ TreeTraverse

TreeSpec == TreeInit /\ [][TreeNext]_vars

(***************************************************************************)
(* Properties of the tree                                                  *)
(***************************************************************************)
\* the node indices (0-based, as in the source) whose arena slot holds a node
Occupied(qt) == { i \in 0..(Len(qt.nodes) - 1) : qt.nodes[i + 1] # None }
NodeAt(qt, i) == qt.nodes[i + 1][1]
Leaves(qt) == { i \in Occupied(qt) : NodeAt(qt, i).kind = "Element" }
Twigs(qt) == { i \in Occupied(qt) : NodeAt(qt, i).kind = "Node" }

\* |x| <= extent and |y| <= extent
InExtent(p, extent) == FxLeq(FxAbs(p.x), extent) /\ FxLeq(FxAbs(p.y), extent)

\* p lies in the closed square of half-width half about centre
InSquare(p, centre, half) ==
    /\ FxLeq(FxAbs(FxSub(p.x, centre.x)), half)
    /\ FxLeq(FxAbs(FxSub(p.y, centre.y)), half)

\* the half-width of a cell of the given depth
CellHalf(extent, depth) == FxMul(extent, powi05(depth))

\* a rounded down to a multiple of 2^-k
FxFloorTo(a, k) ==
    Digits([j \in 1..FxLen |->
              IF j = 1 THEN a[1]
              ELSE LET keep == k - (j - 2) * LimbBits
                   IN  IF keep >= LimbBits THEN a[j]
                       ELSE IF keep <= 0 THEN 0
                       ELSE (a[j] \div (2 ^ (LimbBits - keep)))
                               * (2 ^ (LimbBits - keep))])

\* The cells of one depth tile the root square: each is a square of side
\* 2 * extent * 0.5^depth that has its west and south edge and not its east
\* and north edge, but for the cells along the east and north edge of the
\* root square, which have both.  CellLow is the west (south) edge of the
\* cell that holds coordinate v, for an extent that is a power of two.
CellLow(v, extent, depth) ==
    LET side == FxAdd(CellHalf(extent, depth), CellHalf(extent, depth))
        k == CHOOSE e \in 1..(NLimbs * LimbBits) : FxPow2Neg(e) = side
    IN  IF v = extent THEN FxSub(extent, side) ELSE FxFloorTo(v, k)

SameCell(p, q, extent, depth) ==
    /\ CellLow(p.x, extent, depth) = CellLow(q.x, extent, depth)
    /\ CellLow(p.y, extent, depth) = CellLow(q.y, extent, depth)

\* the insert calls since the tree was last empty gave pairwise different
\* positions, all within the extent
DistinctInExtent(calls, extent) ==
    /\ \A i \in 1..Len(calls) : InExtent(calls[i].element.position, extent)
    /\ \A i, j \in 1..Len(calls) :
         i # j => calls[i].element.position # calls[j].element.position

\* no two of those positions lie in one cell of depth MAX_DEPTH
NoSharedCell(calls, extent) ==
    \A i, j \in 1..Len(calls) :
      i # j => ~SameCell(calls[i].element.position, calls[j].element.position,
                         extent, MAX_DEPTH)

\* cells labels nodes with the centre and depth that the descent from the
\* root computes: (0,0) and 0 for the root, and for a child in slot q of a
\* twig the twig's centre moved by apply_offset(q, ..), one level deeper
DescentCells(qt, cells) ==
    \A i \in 1..Len(cells) :
      LET v == cells[i]
      IN  IF v.index = 0
          THEN v.position = Point2(Fx0, Fx0) /\ v.depth = 0
          ELSE \E j \in 1..Len(cells) :
                 LET pv == cells[j]
                     q == v.index - (pv.node.child_index - 1)
                 IN  /\ pv.node.kind = "Node"
                     /\ q \in 0..3
                     /\ v.depth = pv.depth + 1
                     /\ v.position = apply_offset(q, pv.position, qt.extent, pv.depth)

\* every call returned Ok; the tree has one leaf per call, no two leaves
\* name one element, and each leaf's cell holds its element's position
InsertionCorrect(qt, calls) ==
    LET cells == traverse(qt, {}).visits
    IN  /\ \A i \in 1..Len(calls) : calls[i].res = "Ok"
        /\ Len(qt.elements) = Len(calls)
        /\ Cardinality(Leaves(qt)) = Len(calls)
        /\ \A a \in Leaves(qt) : NodeAt(qt, a).child_index \in 1..Len(qt.elements)
        /\ \A a, b \in Leaves(qt) :
             NodeAt(qt, a).child_index = NodeAt(qt, b).child_index => a = b
        /\ DescentCells(qt, cells)
        /\ \A a \in Leaves(qt) :
             \E i \in 1..Len(cells) :
               /\ cells[i].index = a
               /\ InSquare(qt.elements[NodeAt(qt, a).child_index].element.position,
                           cells[i].position,
                           CellHalf(qt.extent, cells[i].depth))

C2_CoincidentInsertFails ==
    /\ \A i \in 1..Len(inserts) :
         (\E j \in 1..(i - 1) :
             inserts[j].element.position = inserts[i].element.position)
           => inserts[i].res = "Err" /\ inserts[i].errDepth = MAX_DEPTH + 1
    /\ Len(quadtree.nodes) <= 1 + 4 * (MAX_DEPTH + 1) * Len(inserts)

\* a second element at the position of the first has been inserted
C2_Witness ==
    /\ lastCall.op = "insert"
    /\ lastCall.res = "Err"
    /\ Len(inserts) = 2
    /\ inserts[1].element.position = inserts[2].element.position
    /\ inserts[1].res = "Ok"

(***************************************************************************)
(* Properties of the aggregation                                           *)
(***************************************************************************)
RECURSIVE SumMass(_, _)
\* the total mass of the first n bodies
SumMass(bs, n) == IF n = 0 THEN Fx0 ELSE FxAdd(SumMass(bs, n - 1), bs[n].mass)

\* what the child at slot q of twig t contributes: its aggregate, or nothing
\* when the slot is empty
ChildData(qt, t, q) ==
    LET slot == qt.nodes[NodeAt(qt, t).child_index + q]
    IN  IF slot = None THEN PseudobodyDefault ELSE slot[1].data

\* the sum of the child masses of twig t
ChildMass(qt, t) ==
    FxAdd(FxAdd(ChildData(qt, t, 0).mass, ChildData(qt, t, 1).mass),
          FxAdd(ChildData(qt, t, 2).mass, ChildData(qt, t, 3).mass))

\* the sum of child mass times child position of twig t
ChildMoment(qt, t) ==
    LET mx(q) == FxMul(ChildData(qt, t, q).mass, ChildData(qt, t, q).position.x)
        my(q) == FxMul(ChildData(qt, t, q).mass, ChildData(qt, t, q).position.y)
    IN  Point2(FxAdd(FxAdd(mx(0), mx(1)), FxAdd(mx(2), mx(3))),
               FxAdd(FxAdd(my(0), my(1)), FxAdd(my(2), my(3))))

\* C3: after a step that returned Ok, every twig's mass is the sum of its
\* children's masses, every leaf's mass is its element's, and the root's mass
\* is the total mass of the bodies.
C3_MassConserved ==
    advRes = "Ok" =>
      /\ \A t \in Twigs(quadtree) :
           NodeAt(quadtree, t).data.mass = ChildMass(quadtree, t)
      /\ \A l \in Leaves(quadtree) :
           NodeAt(quadtree, l).data.mass =
               quadtree.elements[NodeAt(quadtree, l).child_index].element.mass
      /\ quadtree.nodes[1] # None =>
           NodeAt(quadtree, 0).data.mass = SumMass(bodies, Len(bodies))

\* C4: after a step that returned Ok, every twig's position is the centre of
\* mass of its children: its position times the sum of the child masses is
\* the sum of child mass times child position, empty slots counting nothing.
C4_CentreOfMass ==
    advRes = "Ok" =>
      \A t \in Twigs(quadtree) :
        LET position == NodeAt(quadtree, t).data.position
            mass == ChildMass(quadtree, t)
        IN  /\ FxLess(Fx0, mass)
            /\ Point2(FxMul(mass, position.x), FxMul(mass, position.y))
                 = ChildMoment(quadtree, t)

(***************************************************************************)
(* Properties of insert, advance and the two threads                       *)
(***************************************************************************)
\* C5: an insert call with a position outside the extent returns an error
\* value to its caller; it does not panic.
C5_OutOfExtentIsAnError ==
    \A i \in 1..Len(inserts) :
      ~InExtent(inserts[i].element.position, quadtree.extent)
        => inserts[i].res = "Err"

\* C6: when an insert of the rebuild fails, advance at once returns an error
\* value: no further body is inserted, no aggregate is computed, and advance
\* does not panic.
C6_StepErrorReturned ==
    \A i \in 1..Len(inserts) :
      inserts[i].res # "Ok" =>
        /\ advRes = "Err"
        /\ i = Len(inserts)
        /\ nextBody = i - 1
        /\ \A k \in Occupied(quadtree) :
             NodeAt(quadtree, k).data = PseudobodyDefault

\* the simulation thread is inside its `lock().unwrap().advance(dt).unwrap()`
InStep == simPc \in {"clear", "insert", "aggregate", "unwrap"}

\* C7: the simulation thread runs a step only while it holds the mutex and
\* the main thread renders only while it holds the mutex; so a render never
\* sees the simulation inside a step: what it sees is the state as built
\* (no step yet) or as a step that returned Ok left it, with one element per
\* body.
C7_RenderSeesWholeSteps ==
    /\ InStep => mutex.holder = "sim"
    /\ mainPc = "render" =>
         /\ mutex.holder = "main"
         /\ ~InStep
         /\ advRes \in {"none", "Ok"}
         /\ Len(quadtree.elements) = IF advRes = "Ok" THEN Len(bodies) ELSE 0

\* the main thread renders after a step has rebuilt a tree of two bodies,
\* and the simulation thread is back at its lock() for the next step
C7_Witness ==
    /\ mainPc = "render"
    /\ advRes = "Ok"
    /\ simPc = "lock"
    /\ Cardinality(Leaves(quadtree)) = 2

\* C8: after a step that returned Ok, every body's position is its position
\* at entry plus its velocity times dt, and the tree was rebuilt from those
\* positions.
C8_PositionsIntegrated ==
    advRes = "Ok" =>
      /\ Len(bodies) = Len(entry)
      /\ Len(quadtree.elements) = Len(entry)
      /\ \A i \in 1..Len(entry) :
           LET moved == PointAdd(entry[i].position,
                                 FxMul(entry[i].velocity.x, dt),
                                 FxMul(entry[i].velocity.y, dt))
           IN  /\ bodies[i].position = moved
               /\ quadtree.elements[i].element.position = moved

(***************************************************************************)
(* Properties of traverse                                                  *)
(***************************************************************************)
\* C9: on a tree built by clear and insert calls with positions within the
\* extent, failed calls included, traverse with a visitor that always
\* continues returns Ok, not the depth error.
C9_TraverseReturnsOk ==
    ( /\ lastCall.op = "traverse"
      /\ lastCall.stop = {}
      /\ \A i \in 1..Len(inserts) :
           InExtent(inserts[i].element.position, quadtree.extent) )
      => lastCall.res = "Ok"

\* the twig whose block of four child slots holds slot k, for each slot but
\* the root's
ParentOf(qt) ==
    [k \in 1..(Len(qt.nodes) - 1) |->
        CHOOSE t \in Twigs(qt) : k - (NodeAt(qt, t).child_index - 1) \in 0..3]

\* visits is the log of a pre-order walk of qt that turns back at the nodes
\* in stop
PreOrderWalk(qt, stop, visits) ==
    LET n == Len(visits)
        parent == ParentOf(qt)
        Seen == { visits[i].index : i \in 1..n }
        Stopped == { k \in Occupied(qt) : NodeAt(qt, k) \in stop }
        \* the last visit before visit i that is one level up
        Above(i) ==
            { j \in 1..(i - 1) :
                /\ visits[j].depth = visits[i].depth - 1
                /\ \A h \in (j + 1)..(i - 1) :
                     visits[h].depth # visits[i].depth - 1 }
    IN  \* the visitor is handed nodes of the tree, never an empty slot
        /\ \A i \in 1..n :
             /\ visits[i].index \in Occupied(qt)
             /\ visits[i].node = NodeAt(qt, visits[i].index)
        \* at most once
        /\ \A i, j \in 1..n : visits[i].index = visits[j].index => i = j
        \* the root, and every node whose parent was visited and did not stop
        \* the walk; no other
        /\ \A k \in Occupied(qt) :
             k \in Seen <=>
                 (k = 0 \/ (k # 0 /\ parent[k] \in Seen /\ parent[k] \notin Stopped))
        \* the root first, with centre (0,0) and depth 0; each other node
        \* after its twig and before the rest of the twig's level, with the
        \* twig's depth plus one and the centre of its quadrant
        /\ \A i \in 1..n :
             IF visits[i].index = 0
             THEN /\ i = 1
                  /\ visits[i].position = Point2(Fx0, Fx0)
                  /\ visits[i].depth = 0
             ELSE \E j \in Above(i) :
                    LET q == visits[i].index - (visits[j].node.child_index - 1)
                    IN  /\ visits[j].index = parent[visits[i].index]
                        /\ visits[i].position =
                             apply_offset(q, visits[j].position, qt.extent,
                                          visits[j].depth)
        \* the children of one twig in slot order
        /\ \A i, j \in 1..n :
             ( /\ i < j
               /\ visits[i].index # 0 /\ visits[j].index # 0
               /\ parent[visits[i].index] = parent[visits[j].index] )
               => visits[i].index < visits[j].index

\* C10: traverse calls the visitor on every node of the tree once, in
\* pre-order with the children of a twig in slot order, with the node's
\* centre and depth, but for the nodes below a node on which the visitor
\* returned Stop; it never calls it on an empty slot.
C10_TraverseIsPreOrder ==
    lastCall.op = "traverse"
        => PreOrderWalk(quadtree, lastCall.stop, lastCall.visits)

\* C10 where no insert since the last clear has failed: the case in which
\* the walk is not cut short by the depth error of C9
C10_OnSoundTrees ==
    ( /\ lastCall.op = "traverse"
      /\ \A i \in 1..Len(inserts) : inserts[i].res = "Ok" )
        => PreOrderWalk(quadtree, lastCall.stop, lastCall.visits)

(***************************************************************************)
(* Properties of clear                                                     *)
(***************************************************************************)
RECURSIVE InsertAll(_, _, _)
\* the tree that the first n of the insert calls leave when made on qt
InsertAll(qt, calls, n) ==
    IF n = 0 THEN qt
    ELSE insert(InsertAll(qt, calls, n - 1), calls[n].element).qt

\* C11: once clear() has emptied a tree that held elements, the tree that
\* the insert calls since the last clear() have built has the node and
\* element arenas of a tree freshly created with the same extent into which
\* the same elements were inserted in the same order.
C11_RebuildEqualsFresh ==
    (cleared /\ lastCall.op \in {"clear", "insert"}) =>
      quadtree = InsertAll(QuadtreeNew(quadtree.extent), inserts, Len(inserts))

\* a tree of two elements, one of them deep, has been built after a clear()
C11_Witness ==
    /\ cleared
    /\ lastCall.op = "insert"
    /\ Len(inserts) = 2
    /\ Cardinality(Leaves(quadtree)) = 2
    /\ Cardinality(Twigs(quadtree)) >= MAX_DEPTH

\* C12: every clear() call, whatever tree it is made on, leaves a node arena
\* of exactly one slot, which is empty, and an empty element arena, and
\* leaves the extent as it was.
C12_ClearResets ==
    [][lastCall'.op = "clear" =>
         /\ quadtree'.nodes = <<None>>
         /\ quadtree'.elements = <<>>
         /\ quadtree'.extent = quadtree.extent]_vars

\* clear() has just emptied a tree that held elements
C12_Witness ==
    /\ lastCall.op = "clear"
    /\ cleared
    /\ quadtree.nodes = <<None>>

(***************************************************************************)
(* Properties of the quadrant classification                               *)
(***************************************************************************)
\* a >= b: the difference a - b, rounded down to an integer, is not negative
NotBelow(a, b) == FxSub(a, b)[1] >= 0

\* the positions of the bodies and the cell centres that the last render read
RenderedPairs ==
    IF frame.tree = None THEN {}
    ELSE { <<frame.bodies[i].position, frame.tree[1][j].position>> :
             i \in 1..Len(frame.bodies), j \in 1..Len(frame.tree[1]) }

\* C13: from_comparison gives, for an element position and a node centre,
\* one of the four quadrants: an East one exactly when x >= centre.x and a
\* North one exactly when y >= centre.y, so that a point on a centre line
\* counts as East, and as North.
C13_QuadrantClassified ==
    \A pc \in RenderedPairs :
      LET quadrant == from_comparison(pc[1], pc[2])
      IN  /\ quadrant \in {NW, SW, NE, SE}
          /\ quadrant \in {NE, SE} <=> NotBelow(pc[1].x, pc[2].x)
          /\ quadrant \in {NW, NE} <=> NotBelow(pc[1].y, pc[2].y)

\* a render has read a body on the centre line of a cell, and a body to the
\* south-west of a centre
C13_Witness ==
    /\ \E pc \in RenderedPairs :
         pc[1].x = pc[2].x /\ from_comparison(pc[1], pc[2]) \in {NE, SE}
    /\ \E pc \in RenderedPairs : from_comparison(pc[1], pc[2]) = SW
    /\ \E pc \in RenderedPairs : from_comparison(pc[1], pc[2]) = NE

(***************************************************************************)
(* Properties of advance                                                   *)
(***************************************************************************)
\* C14: after a step that returned Ok, the aggregate of every leaf is the
\* position and the mass of the element the leaf names, and no leaf has kept
\* the default aggregate.
C14_LeafAggregates ==
    advRes = "Ok" =>
      \A l \in Leaves(quadtree) :
        LET element == quadtree.elements[NodeAt(quadtree, l).child_index].element
        IN  /\ NodeAt(quadtree, l).data = Pseudobody(element.position, element.mass)
            /\ NodeAt(quadtree, l).data # PseudobodyDefault

\* a step has returned Ok on a tree of two leaves
C14_Witness ==
    /\ advRes = "Ok"
    /\ simPc = "unwrap"
    /\ Cardinality(Leaves(quadtree)) = 2

\* the insert calls that the rebuild loop of advance makes for bodies bs
RebuildCalls(bs) == [i \in 1..Len(bs) |-> [element |-> bs[i]]]

\* C15: the tree that a step that returned Ok leaves is the tree that the
\* bodies alone determine, whatever the tree held before the step: the one
\* got by inserting the bodies in order into a new tree of the simulation's
\* extent and running the aggregator on it.
C15_TreeFromBodiesAlone ==
    advRes = "Ok" =>
      quadtree = AdvanceAggregate(
                     InsertAll(QuadtreeNew(SimulationExtent),
                               RebuildCalls(bodies), Len(bodies)))

\* a step has returned Ok whose clear() emptied the tree of an earlier step
C15_Witness ==
    /\ advRes = "Ok"
    /\ cleared
    /\ simPc = "unwrap"
    /\ Cardinality(Leaves(quadtree)) = 2

\* the value of frame before the first render
NoFrame == [bodies |-> <<>>, tree |-> None]

\* C16: no step of the program changes the number of bodies, and every
\* render reads as many bodies as the render before it.
C16_BodyCountFixed ==
    [][ /\ Len(bodies') = Len(bodies)
        /\ (frame' # frame /\ frame # NoFrame)
             => Len(frame'.bodies) = Len(frame.bodies) ]_vars

\* two bodies have been rendered, and rebuilt since by a second step
C16_Witness ==
    /\ Len(frame.bodies) = 2
    /\ Len(bodies) = 2
    /\ cleared
    /\ advRes = "Ok"
    /\ mainPc = "render"

(***************************************************************************)
(* Properties of the simulation thread                                     *)
(***************************************************************************)
\* the simulation thread is in its loop: at lock(), in advance, at the
\* unwrap of its result, or asleep
InLoop == simPc \in {"lock", "clear", "insert", "aggregate", "unwrap", "sleep"}

\* C17: as long as the process has not shut down, the simulation thread is
\* in its loop: no outcome of a step ends the thread.
C17_SimulationThreadRuns == ProcessRuns => InLoop

(***************************************************************************)
(* Properties of the arenas                                                *)
(***************************************************************************)
\* the slots that the child key of twig t designates
Block(qt, t) == { NodeAt(qt, t).child_index - 1 + q : q \in 0..3 }

\* C18: after new, clear and insert calls, failed ones included: the arena
\* has its root slot 0; the child key of every twig designates four slots
\* within the arena, all behind the twig itself, so that following child
\* keys never comes back to a slot; every slot but the root lies in the
\* block of exactly one twig, so that the arena has 1 + 4 * twigs slots; and
\* every leaf holds the key of an element of the element arena.
C18_ArenaTopology ==
    lastCall.op \in {"new", "clear", "insert"} =>
      LET n == Len(quadtree.nodes)
          twigs == Twigs(quadtree)
      IN  /\ n >= 1
          /\ \A t \in twigs :
               /\ Block(quadtree, t) \subseteq 1..(n - 1)
               /\ NodeAt(quadtree, t).child_index - 1 > t
          /\ \A k \in 1..(n - 1) :
               Cardinality({ t \in twigs : k \in Block(quadtree, t) }) = 1
          /\ n = 1 + 4 * Cardinality(twigs)
          /\ \A l \in Leaves(quadtree) :
               NodeAt(quadtree, l).child_index \in 1..Len(quadtree.elements)

\* an insert has failed at the depth guard and left its twigs in the arena,
\* beside a leaf
C18_Witness ==
    /\ lastCall.op = "insert"
    /\ lastCall.res = "Err"
    /\ Cardinality(Twigs(quadtree)) > MAX_DEPTH
    /\ Leaves(quadtree) # {}

\* C19: when an insert has returned the depth error, every element whose own
\* insert returned Ok is still named by exactly one leaf of the tree.
C19_FailedInsertKeepsElements ==
    (\E i \in 1..Len(inserts) : inserts[i].res = "Err") =>
      \A j \in 1..Len(inserts) :
        inserts[j].res = "Ok" =>
          Cardinality({ l \in Leaves(quadtree) :
                          NodeAt(quadtree, l).child_index = j }) = 1

\* C20: the simulation thread does not hold the guard while it sleeps, and a
\* lock() the main thread has called returns the guard in the end, unless a
\* step has failed.
C20_LockFreeWhileAsleep ==
    /\ [](simPc = "sleep" => mutex.holder # "sim")
    /\ (mainPc = "lock") ~> (mainPc = "render" \/ advRes \in {"Err", "panic"})

\* the main thread holds the guard while the simulation thread sleeps after
\* a step that returned Ok
C20_Witness ==
    /\ mainPc = "render"
    /\ mutex.holder = "main"
    /\ simPc = "sleep"
    /\ advRes = "Ok"

(***************************************************************************)
(* Properties of the links between the arenas                              *)
(***************************************************************************)
\* every insert call since the last clear() returned Ok
AllInsertsOk == \A i \in 1..Len(inserts) : inserts[i].res = "Ok"

\* C21: after clear and insert calls of which every insert returned Ok,
\* every element i of the element arena has leaf_index = Some(k) where node
\* slot k - 1 is a leaf whose child_index is Element(i + 1), and there are
\* as many leaves as elements.
C21_LeafBackPointers ==
    (lastCall.op \in {"new", "clear", "insert"} /\ AllInsertsOk) =>
      /\ \A i \in 1..Len(quadtree.elements) :
           LET leaf_index == quadtree.elements[i].leaf_index
           IN  /\ leaf_index # None
               /\ leaf_index[1] - 1 \in Leaves(quadtree)
               /\ NodeAt(quadtree, leaf_index[1] - 1).child_index = i
      /\ Cardinality(Leaves(quadtree)) = Len(quadtree.elements)

\* after a clear() of a tree that held elements, a second insert has
\* subdivided the root leaf and moved the first element down
C21_Witness ==
    /\ cleared
    /\ lastCall.op = "insert"
    /\ AllInsertsOk
    /\ Len(quadtree.elements) = 2
    /\ 0 \in Twigs(quadtree)
    /\ quadtree.elements[1].leaf_index # Some(1)

\* the parent links of qt: the root's designates the root, and every other
\* node's designates a twig whose block of four child slots holds the node
ParentLinks(qt) ==
    \A k \in Occupied(qt) :
        LET parent == NodeAt(qt, k).parent_index - 1
        IN  IF k = 0 THEN parent = 0
            ELSE parent \in Twigs(qt) /\ k \in Block(qt, parent)

\* an insert call that turns leaves into twigs leaves their parent_index alone
ParentKept ==
    lastCall'.op = "insert" =>
        \A k \in Leaves(quadtree) \cap Twigs(quadtree') :
            NodeAt(quadtree', k).parent_index = NodeAt(quadtree, k).parent_index

\* C22: after any sequence of clear and insert calls, failed inserts
\* included, the parent_index of the root designates the root and that of
\* every other node a twig whose child block holds the node; a leaf that
\* becomes a twig keeps its parent_index.
C22_ParentLinks ==
    /\ [](lastCall.op \in {"new", "clear", "insert"} => ParentLinks(quadtree))
    /\ [][ParentKept]_vars

\* a leaf below a twig that is not the root, itself once a leaf, in a tree
\* rebuilt after a clear()
C22_Witness ==
    /\ cleared
    /\ lastCall.op = "insert"
    /\ \E t \in Twigs(quadtree) \ {0} :
         /\ NodeAt(quadtree, t).parent_index - 1 \in Twigs(quadtree)
         /\ \E l \in Leaves(quadtree) : NodeAt(quadtree, l).parent_index - 1 = t

(***************************************************************************)
(* The shape of the tree                                                   *)
(***************************************************************************)
\* the geometric tree of qt: for every node its quadrant path from the root,
\* its kind and, for a leaf, the position of the element it holds
GeometricTree(qt) ==
    LET path[k \in 0..(Len(qt.nodes) - 1)] ==
            IF k = 0 THEN <<>>
            ELSE LET parent == NodeAt(qt, k).parent_index - 1
                 IN  Append(path[parent], k - (NodeAt(qt, parent).child_index - 1))
    IN  { << path[k], NodeAt(qt, k).kind,
             IF NodeAt(qt, k).kind = "Element"
             THEN qt.elements[NodeAt(qt, k).child_index].element.position
             ELSE None >> : k \in Occupied(qt) }

\* an order of points that does not depend on the order of the calls
PointBefore(a, b) == FxLess(a.x, b.x) \/ (a.x = b.x /\ FxLess(a.y, b.y))

\* the insert calls with distinct points, put in the order of their points
InPointOrder(calls) ==
    LET Rank(i) == 1 + Cardinality({ j \in 1..Len(calls) :
                        PointBefore(calls[j].element.position,
                                    calls[i].element.position) })
    IN  [r \in 1..Len(calls) |-> calls[CHOOSE i \in 1..Len(calls) : Rank(i) = r]]

\* C23: when the insert calls since the last clear() all returned Ok (so
\* their points are distinct and in the extent), the geometric tree is that
\* of the same points inserted in the order of the points, whatever the
\* order of the calls was: every order of one set of points gives one
\* geometric tree.
C23_ShapeIgnoresOrder ==
    (lastCall.op = "insert" /\ AllInsertsOk) =>
        GeometricTree(quadtree) =
            GeometricTree(InsertAll(QuadtreeNew(quadtree.extent),
                                    InPointOrder(inserts), Len(inserts)))

\* three points inserted in an order that is not the order of the points:
\* the arena slots differ from those of the tree built in point order
C23_Witness ==
    /\ lastCall.op = "insert"
    /\ AllInsertsOk
    /\ Len(inserts) = 3
    /\ inserts # InPointOrder(inserts)
    /\ Cardinality(Twigs(quadtree)) >= 2
    /\ quadtree.nodes # InsertAll(QuadtreeNew(quadtree.extent),
                                  InPointOrder(inserts), Len(inserts)).nodes
====
